---- MODULE Spec2Model ----
(***************************************************************************)
(* A model of bugland/bug.py: the class Bug (a sprite made of a numpy      *)
(* "patch" and a "mask") and its transforms rotate, hflip, vflip, scale,   *)
(* margin, total_mask and fit_mask.                                        *)
(*                                                                         *)
(* The heap maps buffer identities to numpy arrays, a Bug object is a      *)
(* record of an object identity, a name and the two buffers its patch and  *)
(* mask live in.  Every action is one call from outside the class; what    *)
(* the call allocates, writes and returns (or raises) is computed the way  *)
(* the method's code computes it.  After the call the heap keeps the       *)
(* buffers of the receiver and of the returned Bug (the intermediate Bugs  *)
(* of rotate are reclaimed).                                               *)
(*                                                                         *)
(* The file is Python 2 (xrange, integer "/"): numpy.array on rows of      *)
(* unequal length yields a 1-d array of dtype object and raises nothing.   *)
(***************************************************************************)
EXTENDS Integers, Sequences, FiniteSets, TLC

---------------------------------------------------------------------------
(* Bounds of the inputs the model draws.                                   *)

\* scale factors are integers -1..MaxScale (and one float)
MaxScale == 2
\* margins are integers -MaxMargin..MaxMargin
MaxMargin == 1
\* a call is taken only if no array it builds has a side longer than this
MaxSide == 6
\* right angles are the multiples of 90 in -90*AngleSpan .. 360 + 90*AngleSpan
AngleSpan == 1
\* transform calls made on the Bugs derived from one constructed Bug
MaxCalls == 2

---------------------------------------------------------------------------
(* Python values that reach scale().                                       *)

PyInt(n) == [t |-> "int", v |-> n]
PyFloat(n) == [t |-> "float", v |-> n]
None == [t |-> "NoneType", v |-> 0]

\* isinstance(x, int)
isinstance_int(x) == x.t = "int"

---------------------------------------------------------------------------
(* numpy arrays.  A 2-d array has nr rows, nc columns and cells c[<<r,c>>] *)
(* with 0-based indices; dtype is "int" or "float" (a float cell holds an  *)
(* integral value here, 1.0 is written 1).  A 1-d object array, what       *)
(* numpy.array makes of ragged rows, has ndim 1 and keeps the rows in      *)
(* items.                                                                  *)

Idx(nr, nc) == (0 .. nr - 1) \X (0 .. nc - 1)

Arr(dt, nr, nc, f) ==
    [dtype |-> dt, ndim |-> 2, nr |-> nr, nc |-> nc, c |-> f, items |-> <<>>]

ObjArr(rows) ==
    [dtype |-> "object", ndim |-> 1, nr |-> Len(rows), nc |-> 0,
     c |-> [p \in {} |-> 0], items |-> rows]

\* numpy.zeros(shape, dtype)
numpy_zeros(nr, nc, dt) == Arr(dt, nr, nc, [p \in Idx(nr, nc) |-> 0])

\* numpy.ones(shape): float64
numpy_ones(nr, nc) == Arr("float", nr, nc, [p \in Idx(nr, nc) |-> 1])

\* numpy.zeros raises ValueError on a negative dimension
NegativeDim(nr, nc) == nr < 0 \/ nc < 0

\* all rows of a nested list have one length
IsRect(rows) == \A i, j \in 1 .. Len(rows) : Len(rows[i]) = Len(rows[j])

\* numpy.array(nested list): rectangular rows give a 2-d array (float64
\* when there is no cell at all, else int), ragged rows a 1-d object array
FromList(rows) ==
    IF IsRect(rows)
    THEN Arr(IF Len(rows[1]) = 0 THEN "float" ELSE "int",
             Len(rows), Len(rows[1]),
             [p \in Idx(Len(rows), Len(rows[1])) |-> rows[p[1] + 1][p[2] + 1]])
    ELSE ObjArr(rows)

\* Transpose with the transposition forgotten
Transpose_same(a) == a

\* a.T
Transpose(a) ==
    Arr(a.dtype, a.nc, a.nr, [p \in Idx(a.nc, a.nr) |-> a.c[<<p[2], p[1]>>]])

\* ColRev with the reversal forgotten: a[:, ::1]
ColRev_same(a) == a

\* a[:, ::-1]
ColRev(a) ==
    Arr(a.dtype, a.nr, a.nc,
        [p \in Idx(a.nr, a.nc) |-> a.c[<<p[1], a.nc - 1 - p[2]>>]])

\* a[::-1]
RowRev(a) ==
    Arr(a.dtype, a.nr, a.nc,
        [p \in Idx(a.nr, a.nc) |-> a.c[<<a.nr - 1 - p[1], p[2]>>]])

Min(a, b) == IF a <= b THEN a ELSE b

\* does index k belong to the slice lo:hi:step of an axis of length n
\* (0 <= lo, step >= 1; hi is clipped to n as Python does)
InSlice(k, lo, hi, step, n) ==
    /\ k >= lo
    /\ k < Min(hi, n)
    /\ (k - lo) % step = 0

\* bitwise or of two naturals
RECURSIVE BitOr(_, _)
BitOr(x, y) ==
    IF x = 0 THEN y
    ELSE IF y = 0 THEN x
    ELSE (IF x % 2 = 1 \/ y % 2 = 1 THEN 1 ELSE 0)
         + 2 * BitOr(x \div 2, y \div 2)

\* dst[r0:r1:rs, c0:c1:cs] = src   (the slice has src's shape)
SetSlice(dst, r0, r1, rs, c0, c1, cs, src) ==
    Arr(dst.dtype, dst.nr, dst.nc,
        [p \in Idx(dst.nr, dst.nc) |->
            IF InSlice(p[1], r0, r1, rs, dst.nr) /\ InSlice(p[2], c0, c1, cs, dst.nc)
            THEN src.c[<<(p[1] - r0) \div rs, (p[2] - c0) \div cs>>]
            ELSE dst.c[p]])

\* OrSlice with "=" for "|="
OrSlice_assign(dst, r0, r1, c0, c1, src) ==
    Arr(dst.dtype, dst.nr, dst.nc,
        [p \in Idx(dst.nr, dst.nc) |->
            IF InSlice(p[1], r0, r1, 1, dst.nr) /\ InSlice(p[2], c0, c1, 1, dst.nc)
            THEN src.c[<<p[1] - r0, p[2] - c0>>]
            ELSE dst.c[p]])

\* dst[r0:r1, c0:c1] |= src   (the slice has src's shape, both are int)
OrSlice(dst, r0, r1, c0, c1, src) ==
    Arr(dst.dtype, dst.nr, dst.nc,
        [p \in Idx(dst.nr, dst.nc) |->
            IF InSlice(p[1], r0, r1, 1, dst.nr) /\ InSlice(p[2], c0, c1, 1, dst.nc)
            THEN BitOr(dst.c[p], src.c[<<p[1] - r0, p[2] - c0>>])
            ELSE dst.c[p]])

---------------------------------------------------------------------------
(* The heap and the class Bug.                                             *)

\* the least identity not in use
NewId(used) == CHOOSE k \in 1 .. Cardinality(used) + 1 : k \notin used

\* an array handed to the constructor: an existing ndarray (base is its
\* buffer), a view of one (base is the viewed buffer), a new array or a
\* nested list (base 0), or None
Ref(h, k) == [none |-> FALSE, base |-> k, a |-> h[k]]
View(k, a) == [none |-> FALSE, base |-> k, a |-> a]
Fresh(a) == [none |-> FALSE, base |-> 0, a |-> a]
NoneArg == [none |-> TRUE, base |-> 0, a |-> numpy_zeros(0, 0, "int")]

\* numpy.array with copy = False: an ndarray is kept in its buffer
numpy_asarray(h, x) ==
    IF x.base # 0 THEN [heap |-> h, id |-> x.base]
    ELSE LET k == NewId(DOMAIN h)
         IN  [heap |-> [i \in DOMAIN h \cup {k} |-> IF i = k THEN x.a ELSE h[i]],
              id |-> k]

\* numpy.array(x): always a copy in a buffer of its own
numpy_array(h, x) ==
    LET k == NewId(DOMAIN h)
    IN  [heap |-> [i \in DOMAIN h \cup {k} |-> IF i = k THEN x.a ELSE h[i]],
         id |-> k]

NoBug == [id |-> 0, name |-> "", patch |-> 0, mask |-> 0]

\* a raise: nothing is returned
Raise(m, e) == [heap |-> m.heap, objs |-> m.objs, bug |-> NoBug, exc |-> e]

\* return of an existing object
Return(m, b) == [heap |-> m.heap, objs |-> m.objs, bug |-> b, exc |-> ""]

\* Bug.__init__(self, name, patch, mask = None)
Bug_init(m, name, patch, mask) ==
    LET p == numpy_array(m.heap, patch)
        q == IF mask.none THEN p ELSE numpy_array(p.heap, mask)
        o == NewId(m.objs)
    IN  [heap |-> q.heap, objs |-> m.objs \cup {o},
         bug |-> [id |-> o, name |-> name, patch |-> p.id, mask |-> q.id],
         exc |-> ""]

\* hflip with the mask left as it is
hflip_patch_only(m, b) ==
    Bug_init(m, b.name,
             View(b.patch, ColRev(m.heap[b.patch])),
             View(b.mask, m.heap[b.mask]))

\* Bug.hflip
hflip(m, b) ==
    Bug_init(m, b.name,
             View(b.patch, ColRev(m.heap[b.patch])),
             View(b.mask, ColRev(m.heap[b.mask])))

\* Bug.vflip
vflip(m, b) ==
    Bug_init(m, b.name,
             View(b.patch, RowRev(m.heap[b.patch])),
             View(b.mask, RowRev(m.heap[b.mask])))

\* the angles rotate accepts after "angle %= 360"
RightAngles == {0, 90, 180, 270}

\* rotate without "angle %= 360"
rotate_unreduced(m, b, angle) ==
    IF angle \notin RightAngles THEN Raise(m, "ValueError")
    ELSE IF angle = 0 THEN Return(m, b)
    ELSE LET s == IF angle = 90 THEN Return(m, b)
                  ELSE LET f == hflip(m, b)
                       IN  vflip([heap |-> f.heap, objs |-> f.objs], f.bug)
         IN  IF angle = 180 THEN s
             ELSE LET t == Bug_init([heap |-> s.heap, objs |-> s.objs], b.name,
                                    View(s.bug.patch, Transpose(s.heap[s.bug.patch])),
                                    View(s.bug.mask, Transpose(s.heap[s.bug.mask])))
                  IN  hflip([heap |-> t.heap, objs |-> t.objs], t.bug)

\* Bug.rotate
RECURSIVE rotate(_, _, _)
rotate(m, b, angle0) ==
    LET angle == angle0 % 360
    IN  IF angle \notin RightAngles THEN Raise(m, "ValueError")
        ELSE IF angle = 0 THEN Return(m, b)
        ELSE IF angle = 90
        THEN LET t == Bug_init(m, b.name,
                               View(b.patch, Transpose(m.heap[b.patch])),
                               View(b.mask, Transpose(m.heap[b.mask])))
             IN  hflip([heap |-> t.heap, objs |-> t.objs], t.bug)
        ELSE LET f == hflip(m, b)
                 g == vflip([heap |-> f.heap, objs |-> f.objs], f.bug)
             IN  rotate([heap |-> g.heap, objs |-> g.objs], g.bug, angle - 180)

\* the inner loop of scale run for j = 0 alone
scale_j_once(dst, src, xscale, yscale, i, j) ==
    IF xscale <= 0 THEN dst
    ELSE SetSlice(dst, i, src.nr * yscale, yscale, j, src.nc * xscale, xscale, src)

\* the inner loop of scale for one i: "for j in xrange(xscale)"
RECURSIVE scale_j(_, _, _, _, _, _)
scale_j(dst, src, xscale, yscale, i, j) ==
    IF j >= xscale THEN dst
    ELSE scale_j(SetSlice(dst, i, src.nr * yscale, yscale,
                               j, src.nc * xscale, xscale, src),
                 src, xscale, yscale, i, j + 1)

\* the outer loop of scale: "for i in xrange(yscale)"
RECURSIVE scale_i(_, _, _, _, _)
scale_i(dst, src, xscale, yscale, i) ==
    IF i >= yscale THEN dst
    ELSE scale_i(scale_j(dst, src, xscale, yscale, i, 0),
                 src, xscale, yscale, i + 1)

\* Bug.scale
scale(m, b, xscale, yscale0) ==
    LET yscale == IF yscale0 = None THEN xscale ELSE yscale0
    IN  IF ~isinstance_int(xscale) \/ ~isinstance_int(yscale)
        THEN Raise(m, "TypeError")
        ELSE LET x == xscale.v
                 y == yscale.v
                 P == m.heap[b.patch]
                 M == m.heap[b.mask]
             IN  IF NegativeDim(P.nr * y, P.nc * x) \/ NegativeDim(M.nr * y, M.nc * x)
                 THEN Raise(m, "ValueError")
                 ELSE Bug_init(m, b.name,
                        Fresh(scale_i(numpy_zeros(P.nr * y, P.nc * x, "float"), P, x, y, 0)),
                        Fresh(scale_i(numpy_zeros(M.nr * y, M.nc * x, "float"), M, x, y, 0)))

\* the inner loop of margin for one i: "for j in xrange(m)"
RECURSIVE margin_j(_, _, _, _, _, _, _)
margin_j(mask, patch, mr, mc, k, i, j) ==
    IF j >= k THEN mask
    ELSE margin_j(OrSlice(mask, i, mr - k + 1 + i, j, mc - k + 1 + j, patch),
                  patch, mr, mc, k, i, j + 1)

\* the outer loop of margin: "for i in xrange(m)"
RECURSIVE margin_i(_, _, _, _, _, _)
margin_i(mask, patch, mr, mc, k, i) ==
    IF i >= k THEN mask
    ELSE margin_i(margin_j(mask, patch, mr, mc, k, i, 0), patch, mr, mc, k, i + 1)

\* Bug.margin; "|=" of a float patch into the int mask raises TypeError
margin(m, b, mg) ==
    LET P == m.heap[b.patch]
        mr == P.nr + mg * 2
        mc == P.nc + mg * 2
        k == mg * 2 + 1
    IN  IF NegativeDim(mr, mc) THEN Raise(m, "ValueError")
        ELSE IF k > 0 /\ P.dtype # "int" THEN Raise(m, "TypeError")
        ELSE Bug_init(m, b.name, Ref(m.heap, b.patch),
                      Fresh(margin_i(numpy_zeros(mr, mc, "int"), P, mr, mc, k, 0)))

\* Bug.total_mask
total_mask(m, b) ==
    Bug_init(m, b.name, Ref(m.heap, b.patch),
             Fresh(numpy_ones(m.heap[b.mask].nr, m.heap[b.mask].nc)))

\* Bug.fit_mask
fit_mask(m, b) ==
    Bug_init(m, b.name, Ref(m.heap, b.patch), Ref(m.heap, b.patch))

\* the properties h, w, mh, mw, marginh, marginw (Python 2 "/" on ints)
h(hp, b) == hp[b.patch].nr
w(hp, b) == hp[b.patch].nc
mh(hp, b) == hp[b.mask].nr
mw(hp, b) == hp[b.mask].nc
marginh(hp, b) == (mh(hp, b) - h(hp, b)) \div 2
marginw(hp, b) == (mw(hp, b) - w(hp, b)) \div 2

---------------------------------------------------------------------------
(* The state: the heap, the receiver and the result of the last call, the  *)
(* call and its outcome, the receiver's contents as they were when the     *)
(* call began, how each live Bug was made, the number of calls made and    *)
(* the contents seen along the current run of quarter turns.               *)

VARIABLES heap, self, ret, call, outcome, old, hist, ncalls, run

vars == <<heap, self, ret, call, outcome, old, hist, ncalls, run>>

\* the name every Bug of the model is constructed with
Names == {"ant"}

\* the arguments of the constructor: a patch and a mask (or none) given as
\* nested lists.  A single pixel, the sparse 2 x 2 patch, a 1 x 3 and a
\* 2 x 1 patch of several values, an all-zero patch, the empty patch [[]],
\* two patches with masks of other shapes, a ragged patch and a ragged mask.
NoMask == [given |-> FALSE, rows |-> <<>>]
MaskOf(rows) == [given |-> TRUE, rows |-> rows]
Inputs ==
    { [patch |-> <<<<1>>>>, mask |-> NoMask],
      [patch |-> <<<<1, 0>>, <<0, 0>>>>, mask |-> NoMask],
      [patch |-> <<<<0, 1, 2>>>>, mask |-> NoMask],
      [patch |-> <<<<2>>, <<0>>>>, mask |-> NoMask],
      [patch |-> <<<<0, 0>>>>, mask |-> NoMask],
      [patch |-> <<<<>>>>, mask |-> NoMask],
      [patch |-> <<<<2>>, <<0>>>>, mask |-> MaskOf(<<<<1, 0, 0>>>>)],
      [patch |-> <<<<1, 2>>, <<0, 1>>>>, mask |-> MaskOf(<<<<0, 1>>, <<1, 1>>, <<1, 0>>>>)],
      [patch |-> <<<<1, 0>>, <<1>>>>, mask |-> NoMask],
      [patch |-> <<<<1>>>>, mask |-> MaskOf(<<<<1>>, <<0, 1>>>>)] }

\* the arguments of rotate, scale and margin
Angles == {90 * k : k \in (0 - AngleSpan) .. (4 + AngleSpan)} \cup {0 - 30, 45}
ScaleArgs == {PyInt(n) : n \in (0 - 1) .. MaxScale} \cup {PyFloat(2)}
Margins == (0 - MaxMargin) .. MaxMargin

\* the contents of a Bug
Snap(hp, b) == [name |-> b.name, patch |-> hp[b.patch], mask |-> hp[b.mask]]
NoSnap == [name |-> "", patch |-> numpy_zeros(0, 0, "int"), mask |-> numpy_zeros(0, 0, "int")]

Fits(nr, nc) == nr <= MaxSide /\ nc <= MaxSide

\* the Bug the caller goes on with: the one the last call returned (a
\* raise ends the run); a transform is called on it when its patch and
\* mask are 2-d
Receivers ==
    {b \in {ret} : b.id # 0 /\ heap[b.patch].ndim = 2 /\ heap[b.mask].ndim = 2}

\* how a Bug was made.  kind: "bare" by Bug(name, P), "masked" by
\* Bug(name, P, M), "margined" from Bug(name, P).margin(m) with m >= 0 by
\* hflip, vflip, rotate by 90, 180 or 270 and scale by positive integers,
\* "other" otherwise; m: that margin; rigid: no scale since
Made(kind, m, rigid) == [kind |-> kind, m |-> m, rigid |-> rigid]
Other == Made("other", 0, FALSE)

Lineage(op, args, lin) ==
    IF op = "margin"
    THEN IF lin.kind = "bare" /\ args[1] >= 0 THEN Made("margined", args[1], TRUE) ELSE Other
    ELSE IF lin.kind # "margined" THEN Other
    ELSE IF op \in {"hflip", "vflip"} THEN lin
    ELSE IF op = "rotate"
    THEN IF args[1] % 360 \in {90, 180, 270} THEN lin ELSE Other
    ELSE IF op = "scale"
    THEN IF /\ isinstance_int(args[1]) /\ args[1].v > 0
            /\ (args[2] = None \/ (isinstance_int(args[2]) /\ args[2].v > 0))
         THEN Made("margined", lin.m, FALSE) ELSE Other
    ELSE Other

\* a quarter turn: a rotate call that takes the branch "angle == 90"
IsQuarter(op, args) == op = "rotate" /\ args[1] % 360 = 90

\* the contents seen along the current run of successive quarter turns,
\* from the Bug the run began on: the last five Bugs at most, the ends of
\* four turns
Run(op, args, prev, before, after) ==
    IF IsQuarter(op, args)
    THEN LET sofar == IF prev = <<>> THEN <<before>> ELSE prev
         IN  (IF Len(sofar) = 5 THEN Tail(sofar) ELSE sofar) \o <<after>>
    ELSE <<>>

Init ==
    /\ heap = <<>>
    /\ self = NoBug
    /\ ret = NoBug
    /\ call = [op |-> "none", args |-> <<>>]
    /\ outcome = "none"
    /\ old = NoSnap
    /\ hist = <<>>
    /\ ncalls = 0
    /\ run = <<>>

\* Bug(name, patch) and Bug(name, patch, mask) on nested lists
Construct ==
    /\ call.op = "none"
    /\ \E name \in Names, inp \in Inputs :
        LET rows == inp.patch
            mk == inp.mask
            r == Bug_init([heap |-> heap, objs |-> {}], name,
                               Fresh(FromList(rows)),
                               IF mk.given THEN Fresh(FromList(mk.rows)) ELSE NoneArg)
        IN  /\ heap' = r.heap
            /\ self' = NoBug
            /\ ret' = r.bug
            /\ call' = [op |-> "Bug", args |-> <<name, rows, mk>>]
            /\ outcome' = IF r.exc = "" THEN "ok" ELSE r.exc
            /\ old' = NoSnap
            /\ hist' = [i \in {r.bug.id} \ {0} |->
                          Made(IF mk.given THEN "masked" ELSE "bare", 0, TRUE)]
            /\ UNCHANGED <<ncalls, run>>

\* the heap and the objects in use when a call on b begins: the caller
\* holds b alone, the other Bug of the last call is reclaimed
Now(b) == [heap |-> [k \in {b.patch, b.mask} |-> heap[k]], objs |-> {b.id}]

\* the state after the call b.op(args) whose effect is r
Apply(op, args, b, r) ==
    /\ heap' = [k \in {b.patch, b.mask}
                      \cup (IF r.bug.id = 0 THEN {} ELSE {r.bug.patch, r.bug.mask})
                  |-> r.heap[k]]
    /\ self' = b
    /\ ret' = r.bug
    /\ call' = [op |-> op, args |-> args]
    /\ outcome' = IF r.exc = "" THEN "ok" ELSE r.exc
    /\ old' = Snap(heap, b)
    /\ hist' = [i \in {b.id} \cup ({r.bug.id} \ {0}) |->
                  IF i = b.id THEN hist[b.id]
                  ELSE Lineage(op, args, hist[b.id])]
    /\ ncalls' = ncalls + 1
    /\ run' = Run(op, args, run, Snap(heap, b), Snap(r.heap, r.bug))

\* calls are made while fewer than MaxCalls were
MayCall == ncalls < MaxCalls

Hflip == \E b \in Receivers : MayCall /\ Apply("hflip", <<>>, b, hflip(Now(b), b))

Vflip == \E b \in Receivers : MayCall /\ Apply("vflip", <<>>, b, vflip(Now(b), b))

\* a run of quarter turns under way is followed to its end past MaxCalls
Rotate ==
    \E b \in Receivers, angle \in Angles :
        /\ MayCall \/ (IsQuarter("rotate", <<angle>>) /\ run # <<>> /\ Len(run) < 5)
        /\ Apply("rotate", <<angle>>, b, rotate(Now(b), b, angle))

Scale ==
    \E b \in Receivers, xscale \in ScaleArgs, yscale \in ScaleArgs \cup {None} :
        /\ MayCall
        /\ (isinstance_int(xscale) /\ (yscale = None \/ isinstance_int(yscale)))
           => \A a \in {heap[b.patch], heap[b.mask]} :
                 Fits(a.nr * (IF yscale = None THEN xscale.v ELSE yscale.v),
                      a.nc * xscale.v)
        /\ Apply("scale", <<xscale, yscale>>, b, scale(Now(b), b, xscale, yscale))

Margin ==
    \E b \in Receivers, mg \in Margins :
        /\ MayCall
        /\ Fits(heap[b.patch].nr + 2 * mg, heap[b.patch].nc + 2 * mg)
        /\ Apply("margin", <<mg>>, b, margin(Now(b), b, mg))

TotalMask == \E b \in Receivers : MayCall /\ Apply("total_mask", <<>>, b, total_mask(Now(b), b))

FitMask == \E b \in Receivers : MayCall /\ Apply("fit_mask", <<>>, b, fit_mask(Now(b), b))

Next ==
    \/ Construct
    \/ Hflip
    \/ Vflip
    \/ Rotate
    \/ Scale
    \/ Margin
    \/ TotalMask
    \/ FitMask

Spec == Init /\ [][Next]_vars

---------------------------------------------------------------------------
(* The claims.  Each is about the last call: its receiver's contents when  *)
(* it began (old), its arguments (call.args), its outcome and the Bug it   *)
(* returned (ret).                                                         *)

Abs(n) == IF n < 0 THEN 0 - n ELSE n

\* the call returned a Bug
Returned == outcome = "ok" /\ ret.id # 0

\* array a holds a non-zero cell at (r, c)
Occupied(a, r, c) == a.c[<<r, c>>] # 0

\* mask is the dilation of patch by mgv rows and mgh columns on each side:
\* it is 2*mgv rows and 2*mgh columns larger, and a cell of it is non-zero
\* exactly when a non-zero patch cell, moved to the centre, is within mgv
\* rows and mgh columns of it
Dilated(patch, mask, mgv, mgh) ==
    /\ mask.ndim = 2
    /\ mask.nr = patch.nr + 2 * mgv
    /\ mask.nc = patch.nc + 2 * mgh
    /\ \A q \in Idx(mask.nr, mask.nc) :
          Occupied(mask, q[1], q[2])
          <=> \E p \in Idx(patch.nr, patch.nc) :
                 /\ Occupied(patch, p[1], p[2])
                 /\ Abs(q[1] - (p[1] + mgv)) <= mgv
                 /\ Abs(q[2] - (p[2] + mgh)) <= mgh

XScale == call.args[1]
YScale == IF call.args[2] = None THEN call.args[1] ELSE call.args[2]
PositiveInt(x) == isinstance_int(x) /\ x.v > 0

\* dst is src with every cell repeated y times down and x times across
Replicated(src, dst, x, y) ==
    /\ dst.ndim = 2
    /\ dst.nr = src.nr * y
    /\ dst.nc = src.nc * x
    /\ \A q \in Idx(dst.nr, dst.nc) : dst.c[q] = src.c[<<q[1] \div y, q[2] \div x>>]

\* C2: scale(x, y) with positive integers returns a Bug whose patch and
\* mask are y times as high and x times as wide as the receiver's, each
\* cell (row, col) equal to the source cell (row // y, col // x); scale(x)
\* gives what scale(x, x) gives.
ScaleReplicates ==
    (call.op = "scale" /\ PositiveInt(XScale) /\ PositiveInt(YScale))
    => /\ Returned
       /\ Replicated(old.patch, heap[ret.patch], XScale.v, YScale.v)
       /\ Replicated(old.mask, heap[ret.mask], XScale.v, YScale.v)
       /\ call.args[2] = None
          => LET r == scale(Now(self), self, XScale, XScale)
             IN  /\ r.exc = ""
                 /\ r.heap[r.bug.patch] = heap[ret.patch]
                 /\ r.heap[r.bug.mask] = heap[ret.mask]

ScaleReplicatesWitness ==
    /\ call.op = "scale" /\ XScale = PyInt(2) /\ call.args[2] = PyInt(1)
    /\ Returned
    /\ old.mask.nr # old.patch.nr
    /\ \E p \in Idx(old.patch.nr, old.patch.nc) : Occupied(old.patch, p[1], p[2])
    /\ \E p \in Idx(old.patch.nr, old.patch.nc) : ~Occupied(old.patch, p[1], p[2])

\* C3: scale raises, and returns no Bug, whenever xscale or yscale is not
\* a positive integer (a float, 0, a negative integer).
ScaleRejectsNonPositive ==
    (call.op = "scale" /\ ~(PositiveInt(XScale) /\ PositiveInt(YScale)))
    => (outcome # "ok" /\ ret = NoBug)

\* C4: margin(m) raises, and returns no Bug, for every negative m.
MarginRejectsNegative ==
    (call.op = "margin" /\ call.args[1] < 0) => (outcome # "ok" /\ ret = NoBug)

\* C5: the constructor raises, and creates no Bug, when the patch or the
\* mask it is given has two rows of different length.
ConstructRejectsRagged ==
    (call.op = "Bug" /\ (~IsRect(call.args[2])
                            \/ (call.args[3].given /\ ~IsRect(call.args[3].rows))))
    => (outcome # "ok" /\ ret = NoBug)

\* C6: rotate(angle) raises exactly when angle mod 360 is none of 0, 90,
\* 180, 270; otherwise it returns a Bug with the patch and mask that
\* rotate(angle mod 360) gives.
RotateReducesAngle ==
    call.op = "rotate"
    => /\ outcome # "ok" <=> (call.args[1] % 360) \notin {0, 90, 180, 270}
       /\ outcome # "ok" => ret = NoBug
       /\ outcome = "ok"
          => LET r == rotate(Now(self), self, call.args[1] % 360)
             IN  /\ ret.id # 0
                 /\ r.exc = ""
                 /\ r.heap[r.bug.patch] = heap[ret.patch]
                 /\ r.heap[r.bug.mask] = heap[ret.mask]

RotateReducesAngleWitness ==
    /\ call.op = "rotate" /\ call.args[1] \in {0 - 90, 450}
    /\ Returned
    /\ heap[ret.patch] # old.patch

\* dst is src turned a quarter clockwise: the cell (r, c) of src is the
\* cell (c, R - 1 - r) of dst
Turned(src, dst) ==
    /\ dst.ndim = 2
    /\ dst.nr = src.nc
    /\ dst.nc = src.nr
    /\ \A p \in Idx(src.nr, src.nc) : dst.c[<<p[2], src.nr - 1 - p[1]>>] = src.c[p]

\* C7: rotate(90) returns a Bug whose patch is the receiver's turned a
\* quarter clockwise (shape (C, R), source cell (r, c) at (c, R - 1 - r)),
\* and whose mask is the receiver's mask turned likewise.
QuarterTurn ==
    (call.op = "rotate" /\ call.args[1] = 90)
    => /\ Returned
       /\ Turned(old.patch, heap[ret.patch])
       /\ Turned(old.mask, heap[ret.mask])

QuarterTurnWitness ==
    /\ call.op = "rotate" /\ call.args[1] = 90
    /\ Returned
    /\ old.patch.nr = 2 /\ old.patch.nc = 1
    /\ old.patch.c[<<0, 0>>] # old.patch.c[<<1, 0>>]
    /\ old.mask.nr = 1 /\ old.mask.nc = 3

SameCells(a, b) == a.nr = b.nr /\ a.nc = b.nc /\ a.c = b.c
Swapped(a, b) == a.nr = b.nc /\ a.nc = b.nr

\* C8: four successive rotate(90) calls end on a Bug whose patch and mask
\* have the shapes and cells of the Bug they began on, the shapes being
\* swapped after the first and after the third call.
FourQuarterTurns ==
    Len(run) = 5
    => /\ SameCells(run[5].patch, run[1].patch)
       /\ SameCells(run[5].mask, run[1].mask)
       /\ \A i \in {2, 4} : /\ Swapped(run[i].patch, run[1].patch)
                            /\ Swapped(run[i].mask, run[1].mask)

FourQuarterTurnsWitness ==
    /\ Len(run) = 5
    /\ run[1].patch.nr # run[1].patch.nc
    /\ run[1].mask.nr # run[1].mask.nc
    /\ run[1].mask.nr # run[1].patch.nr
    /\ run[3].patch.c # run[1].patch.c
    /\ call.args[1] = 90

Transforms == {"hflip", "vflip", "rotate", "scale", "margin", "total_mask", "fit_mask"}

\* C9: a transform leaves its receiver's name, patch and mask as they were;
\* rotate by a multiple of 360 returns the receiver itself, every other
\* transform that returns gives a new Bug whose patch and mask buffers are
\* none of the receiver's.
TransformsAreFresh ==
    call.op \in Transforms
    => /\ self.name = old.name
       /\ heap[self.patch] = old.patch
       /\ heap[self.mask] = old.mask
       /\ outcome = "ok"
          => IF call.op = "rotate" /\ call.args[1] % 360 = 0
             THEN ret = self
             ELSE /\ ret.id \notin {0, self.id}
                  /\ ret.name = old.name
                  /\ {ret.patch, ret.mask} \cap {self.patch, self.mask} = {}

TransformsAreFreshWitness ==
    /\ call.op = "fit_mask"
    /\ Returned
    /\ self.patch = self.mask
    /\ ret.patch # ret.mask
    /\ ncalls = MaxCalls

====
